---- MODULE Spec2Model ----
(***************************************************************************)
(* ResourceHost (src/src/ResourceHost.cpp): URI resolution through an      *)
(* in-memory cache backed by the filesystem.  Strings are sequences of     *)
(* one-character strings, so concatenation, length and character search    *)
(* are the operations the code performs.                                   *)
(***************************************************************************)
EXTENDS Integers, Sequences, FiniteSets, TLC

(* ------------------------------ bounds -------------------------------- *)

\* Resources ever allocated in one behaviour (the heap never shrinks).
MaxRes == 2

\* Filesystem modifications made by the environment in one behaviour.
MaxFsOps == 1

(* ------------------------- constants of the code ----------------------- *)

NULL == 0

\* uri.length() > 255
MaxUriLen == 255

\* <sys/stat.h> values of st_mode, as used by getResource/loadFile/loadDirectory
S_IFCHR == 8192
S_IFDIR == 16384
S_IFBLK == 24576
S_IFREG == 32768
S_IFSOCK == 49152
S_IRWXU == 448
S_IRUSR == 256
S_IWUSR == 128
S_IXUSR == 64

\* Bitwise and of two naturals (the & of the permission and type tests).
RECURSIVE BitAnd(_, _)
BitAnd(a, b) ==
    IF a = 0 \/ b = 0 THEN 0
    ELSE (IF a % 2 = 1 /\ b % 2 = 1 THEN 1 ELSE 0) + 2 * BitAnd(a \div 2, b \div 2)

(* ------------------------------ strings -------------------------------- *)

HtmlTitleOpen ==
    <<"<", "h", "t", "m", "l", ">", "<", "h", "e", "a", "d", ">", "<", "t", "i", "t", "l", "e", ">">>

HtmlTitleClose ==
    <<"<", "/", "t", "i", "t", "l", "e", ">", "<", "/", "h", "e", "a", "d", ">", "<", "b", "o", "d", "y", ">">>

HtmlH1Open ==
    <<"<", "h", "1", ">", "I", "n", "d", "e", "x", " ", "o", "f", " ">>

HtmlH1Close ==
    <<"<", "/", "h", "1", ">", "<", "h", "r", ">", "<", "b", "r", " ", "/", ">">>

HtmlAOpen ==
    <<"<", "a", " ", "h", "r", "e", "f", "=", "\"">>

HtmlAMid ==
    <<"\"", ">">>

HtmlAClose ==
    <<"<", "/", "a", ">", "<", "b", "r", " ", "/", ">">>

HtmlClose ==
    <<"<", "/", "b", "o", "d", "y", ">", "<", "/", "h", "t", "m", "l", ">">>

IndexHtml ==
    <<"i", "n", "d", "e", "x", ".", "h", "t", "m", "l">>

IndexHtm ==
    <<"i", "n", "d", "e", "x", ".", "h", "t", "m">>

\* The configured index filenames, probed in this order.
validIndexes == <<IndexHtml, IndexHtm>>

\* The base disk path the host was constructed with.
baseDiskPath == <<"/", "w">>

\* A string of n characters "a".
Pad(n) == [i \in 1..n |-> "a"]

(* ----------------------------- filesystem ------------------------------ *)

\* Names under the base path that the environment may populate.
P_n == baseDiskPath \o <<"/", "n">>
P_i1 == P_n \o <<"/">> \o IndexHtml
P_i2 == P_n \o <<"/">> \o IndexHtm
P_a == P_n \o <<"/", "a">>

PathNames == {P_n, P_i1, P_i2, P_a}
ChildPaths == {P_i1, P_i2, P_a}

\* Entry names of the directory P_n, in the order readdir returns them; the
\* directory always holds ".", ".." and one hidden file ".h".
DirEntries ==
    << [name |-> <<".">>, path |-> P_n],
       [name |-> <<".", ".">>, path |-> P_n],
       [name |-> <<".", "h">>, path |-> P_n],
       [name |-> <<"a">>, path |-> P_a],
       [name |-> IndexHtm, path |-> P_i2],
       [name |-> IndexHtml, path |-> P_i1] >>

\* An off_t value hi * 2^32 + lo, kept in two words.
OffT(hi, lo) == [hi |-> hi, lo |-> lo]

\* The conversion of an off_t to unsigned int: the value modulo 2^32.
ToUInt(off) == off.lo

\* A node whose content is data, all of it spelled out.
Node(mode, data, canOpen) ==
    [present |-> TRUE, mode |-> mode, data |-> data, canOpen |-> canOpen,
     size |-> OffT(0, Len(data))]

NoNode ==
    [present |-> FALSE, mode |-> 0, data |-> <<>>, canOpen |-> FALSE,
     size |-> OffT(0, 0)]

\* A regular file of 2^32 + 1 bytes; data spells out its leading bytes.
HugeFile ==
    [present |-> TRUE, mode |-> S_IFREG + S_IRWXU,
     data |-> <<"y", "z">>, canOpen |-> TRUE, size |-> OffT(1, 1)]

FileNodes ==
    { Node(S_IFREG + S_IRUSR + S_IWUSR, <<"x">>, TRUE),
      Node(S_IFREG + S_IRWXU, <<"y", "z">>, TRUE),
      Node(S_IFREG, <<"x">>, TRUE),
      Node(S_IFREG + S_IRUSR + S_IWUSR, <<"x">>, FALSE),
      HugeFile }

DirNodes ==
    { Node(S_IFDIR + S_IRWXU, <<>>, TRUE),
      Node(S_IFDIR + S_IRUSR + S_IXUSR, <<>>, TRUE),
      Node(S_IFDIR, <<>>, TRUE),
      Node(S_IFDIR + S_IWUSR + S_IXUSR, <<>>, FALSE),
      Node(S_IFDIR + S_IRWXU, <<>>, FALSE) }

SpecialNodes ==
    { Node(S_IFSOCK + S_IRWXU, <<>>, TRUE),
      Node(S_IFBLK + S_IRUSR + S_IWUSR, <<>>, TRUE),
      Node(S_IFCHR + S_IRUSR + S_IWUSR, <<>>, TRUE) }

\* What each name may hold.
NodeChoices(p) ==
    IF p = P_n THEN {NoNode} \cup FileNodes \cup DirNodes \cup SpecialNodes
    ELSE IF p = P_i1 THEN
        { NoNode,
          Node(S_IFREG + S_IRUSR + S_IWUSR, <<"i">>, TRUE),
          Node(S_IFREG, <<"i">>, TRUE) }
    ELSE IF p = P_i2 THEN {NoNode, Node(S_IFREG + S_IRUSR + S_IWUSR, <<"j">>, TRUE)}
    ELSE {NoNode, Node(S_IFREG + S_IRUSR + S_IWUSR, <<"x">>, TRUE)}

\* S_ISDIR / S_ISREG of the kernel: the node really is a directory / a file.
IsDirNode(n) == n.present /\ n.mode - (n.mode % 4096) = S_IFDIR
IsRegNode(n) == n.present /\ n.mode - (n.mode % 4096) = S_IFREG

\* A tree: entries exist only inside a directory.
FsOk(f) == \A p \in ChildPaths : f[p].present => IsDirNode(f[P_n])

MkFs(n, i1, i2, a) ==
    (P_n :> n) @@ (P_i1 :> i1) @@ (P_i2 :> i2) @@ (P_a :> a)

FsConfigs ==
    { f \in { MkFs(t[1], t[2], t[3], t[4]) :
                t \in NodeChoices(P_n) \X NodeChoices(P_i1) \X NodeChoices(P_i2)
                      \X NodeChoices(P_a) } : FsOk(f) }

(* ------------------------------- state --------------------------------- *)

VARIABLES
    fs,        \* the filesystem under the base path: name -> node
    cacheMap,  \* ResourceHost::cacheMap: key (disk path) -> Resource*
    heap,      \* every Resource ever allocated, by address 1..Len(heap)
    created,   \* addresses allocated since the last clearCache
    last,      \* what the last call of the host did
    dirty,     \* the filesystem was modified after the last call
    fsOps,     \* filesystem modifications so far
    dirHandles,\* directory handles open in the process
    thr,       \* concurrent callers: where each is in its getResource
    insLog     \* concurrent callers: the cacheMap->insert calls, in order

vars == <<fs, cacheMap, heap, created, last, dirty, fsOps, dirHandles, thr,
          insLog>>

(* --------------------------- system calls ------------------------------ *)

StripSlash(path) ==
    IF Len(path) > 0 /\ path[Len(path)] = "/"
    THEN SubSeq(path, 1, Len(path) - 1)
    ELSE path

\* The node a path names, or NoNode: a trailing separator needs a directory.
Resolve(path) ==
    LET p == StripSlash(path) IN
    IF /\ p \in PathNames
       /\ fs[p].present
       /\ (p # path => IsDirNode(fs[p]))
    THEN fs[p]
    ELSE NoNode

\* stat(2): ok is "!= -1"; follows symbolic links, so S_IFLNK never shows.
Stat(path) ==
    LET n == Resolve(path) IN
    [ok |-> n.present, st_mode |-> n.mode, st_size |-> n.size]

\* std::ifstream::open followed by is_open()
FileIsOpen(path) == Resolve(path).present /\ Resolve(path).canOpen

\* file.read(fdata, len)
FileRead(path, len) == SubSeq(Resolve(path).data, 1, len)

\* opendir(3) != NULL
OpenDir(path) == IsDirNode(Resolve(path)) /\ Resolve(path).canOpen

\* The d_name values readdir(3) yields until it returns NULL.
ReadDir(path) ==
    LET here == SelectSeq(DirEntries,
                          LAMBDA e : e.path = P_n \/ fs[e.path].present)
    IN [i \in 1..Len(here) |-> here[i].name]

(* --------------------------- std::string ------------------------------- *)

Range(f) == {f[x] : x \in DOMAIN f}

\* std::string::npos, with positions counted from 1
npos == 0

\* s.find_last_of(chars): last position of s holding any character of chars
find_last_of(s, chars) ==
    LET hits == {i \in 1..Len(s) : s[i] \in Range(chars)} IN
    IF hits = {} THEN npos ELSE CHOOSE i \in hits : \A j \in hits : j <= i

\* s.substr(pos), pos counted from 1
substr(s, pos) == SubSeq(s, pos, Len(s))

(* ------------------------ std::unordered_map --------------------------- *)

EmptyMap == <<>>

\* Variant: the map's operator[] assignment, replacing the value of a key
\* that is present.
MapInsert_Overwrite(m, k, v) ==
    [x \in DOMAIN m \cup {k} |-> IF x = k THEN v ELSE m[x]]

\* insert(pair): an existing key keeps its value
MapInsert(m, k, v) == IF k \in DOMAIN m THEN m ELSE m @@ (k :> v)

\* find(key) != end()
MapHas(m, k) == k \in DOMAIN m

(* ----------------------------- Resource -------------------------------- *)

\* new Resource(path) / new Resource(path, true): no buffer yet, no MIME type
Resource_new(loc, isDir) ==
    [location |-> loc, dir |-> isDir, mime |-> FALSE,
     data |-> <<>>, len |-> 0, hasData |-> FALSE, live |-> TRUE]

\* res->guessMimeType()
Resource_guessMimeType(r) == [r EXCEPT !.mime = TRUE]

\* res->setData(data, len)
Resource_setData(r, data, len) ==
    [r EXCEPT !.data = data, !.len = len, !.hasData = TRUE]

\* The Resource as it is when it is handed to cacheMap->insert.
NewResource(loc, isDir, data, len) ==
    Resource_setData(IF isDir THEN Resource_new(loc, isDir)
                     ELSE Resource_guessMimeType(Resource_new(loc, isDir)),
                     data, len)

(* ------------------------- one call of the host ------------------------ *)

\* The host's state at the start of a call, with what the call has done so far.
NewCall(cm, hp) ==
    [cacheMap |-> cm, heap |-> hp, res |-> NULL,
     hit |-> FALSE,      \* the lookup found the key
     nLookup |-> 0,      \* cacheMap->find
     nStat |-> 0,        \* stat
     nOpen |-> 0,        \* ifstream::open
     nRead |-> 0,        \* ifstream::read
     nOpendir |-> 0,     \* opendir
     nOpened |-> 0,      \* opendir that returned a handle
     nClosedir |-> 0,    \* closedir
     nInsert |-> 0,      \* cacheMap->insert
     branch |-> "none",  \* which arm of the type test ran
     fileMode |-> -1,    \* st_mode handed to loadFile
     dirMode |-> -1,     \* st_mode handed to loadDirectory
     idx |-> 0,          \* position in validIndexes of the index found
     listed |-> FALSE]   \* listDirectory ran

\* What a caller keeps while it is inside getResource.
IdleThread ==
    [pc |-> "idle", uri |-> <<>>, plan |-> Resource_new(<<>>, FALSE),
     res |-> NULL, hit |-> FALSE, seen |-> 0]

\* Variant: the gate demanding all three owner bits.
OwnerDenied_AllBits(sb) == BitAnd(sb.st_mode, S_IRWXU) # S_IRWXU

\* !(sb.st_mode & S_IRWXU): "Make sure the webserver USER owns the file"
OwnerDenied(sb) == BitAnd(sb.st_mode, S_IRWXU) = 0

\* Variant: the Resource created before the file is opened, and left
\* behind when the open fails.
ResourceHost_loadFile_AllocFirst(c, path, sb) ==
    LET c0 == [c EXCEPT !.fileMode = sb.st_mode] IN
    IF OwnerDenied(sb) THEN [c0 EXCEPT !.res = NULL]
    ELSE
      LET c1 == [c0 EXCEPT !.nOpen = @ + 1,
                           !.heap = Append(@, Resource_new(path, FALSE))]
          res == Len(c1.heap)
      IN
      IF ~FileIsOpen(path) THEN [c1 EXCEPT !.res = NULL]
      ELSE
        LET len == ToUInt(sb.st_size)
            fdata == FileRead(path, len)
        IN [c1 EXCEPT !.nRead = @ + 1,
                      !.heap[res] = NewResource(path, FALSE, fdata, len),
                      !.cacheMap = MapInsert(@, path, res),
                      !.nInsert = @ + 1,
                      !.res = res]

\* loadFile: owner test, open, read st_size bytes, new Resource, insert
\* under the Resource's location.
ResourceHost_loadFile(c, path, sb) ==
    LET c0 == [c EXCEPT !.fileMode = sb.st_mode] IN
    IF OwnerDenied(sb) THEN [c0 EXCEPT !.res = NULL]
    ELSE
      LET c1 == [c0 EXCEPT !.nOpen = @ + 1] IN
      IF ~FileIsOpen(path) THEN [c1 EXCEPT !.res = NULL]
      ELSE
        LET len == ToUInt(sb.st_size)   \* unsigned int len = sb.st_size
            fdata == FileRead(path, len)
            res == Len(c1.heap) + 1
        IN [c1 EXCEPT !.nRead = @ + 1,
                      !.heap = Append(@, NewResource(path, FALSE, fdata, len)),
                      !.cacheMap = MapInsert(@, path, res),
                      !.nInsert = @ + 1,
                      !.res = res]

\* Variant: a link for every entry, hidden ones included.
RECURSIVE ListEntries_NoSkip(_, _)
ListEntries_NoSkip(uri, ents) ==
    IF ents = <<>> THEN <<>>
    ELSE LET d_name == Head(ents) IN
         (HtmlAOpen \o uri \o d_name \o HtmlAMid \o d_name \o HtmlAClose)
         \o ListEntries_NoSkip(uri, Tail(ents))

\* One link per entry whose name does not start with '.'
RECURSIVE ListEntries(_, _)
ListEntries(uri, ents) ==
    IF ents = <<>> THEN <<>>
    ELSE LET d_name == Head(ents) IN
         (IF d_name[1] = "."
          THEN <<>>
          ELSE HtmlAOpen \o uri \o d_name \o HtmlAMid \o d_name \o HtmlAClose)
         \o ListEntries(uri, Tail(ents))

\* Variant: the lister returning after the loop without closedir.
ListDirectoryRun_NoClose(path) ==
    LET uri_pos == find_last_of(path, baseDiskPath)
        uri == IF uri_pos # npos THEN substr(path, uri_pos) ELSE <<"?">>
    IN IF ~OpenDir(path)
       THEN [str |-> <<>>, nOpened |-> 0, nClosedir |-> 0]
       ELSE [str |-> HtmlTitleOpen \o uri \o HtmlTitleClose
                     \o HtmlH1Open \o uri \o HtmlH1Close
                     \o ListEntries(uri, ReadDir(path))
                     \o HtmlClose,
             nOpened |-> 1, nClosedir |-> 0]

\* One run of listDirectory: the string it returns, the handles opendir
\* gave it and the closedir calls it made. The empty string when opendir
\* fails (no handle exists then), else the page, built between opendir and
\* closedir.
ListDirectoryRun(path) ==
    LET uri_pos == find_last_of(path, baseDiskPath)
        uri == IF uri_pos # npos THEN substr(path, uri_pos) ELSE <<"?">>
    IN IF ~OpenDir(path)
       THEN [str |-> <<>>, nOpened |-> 0, nClosedir |-> 0]
       ELSE [str |-> HtmlTitleOpen \o uri \o HtmlTitleClose
                     \o HtmlH1Open \o uri \o HtmlH1Close
                     \o ListEntries(uri, ReadDir(path))
                     \o HtmlClose,
             nOpened |-> 1, nClosedir |-> 1]

\* listDirectory: the string returned.
ResourceHost_listDirectory(path) == ListDirectoryRun(path).str

\* Variant: the probe loop loading every candidate found instead of
\* returning at the first.
RECURSIVE ProbeIndexes_NoReturn(_, _, _)
ProbeIndexes_NoReturn(c, path, i) ==
    IF i > Len(validIndexes) THEN c
    ELSE LET loadIndex == path \o validIndexes[i]
             sidx == Stat(loadIndex)
             c1 == [c EXCEPT !.nStat = @ + 1]
         IN IF sidx.ok
            THEN ProbeIndexes_NoReturn(
                     ResourceHost_loadFile(
                         [c1 EXCEPT !.idx = IF @ = 0 THEN i ELSE @], loadIndex, sidx),
                     path, i + 1)
            ELSE ProbeIndexes_NoReturn(c1, path, i + 1)

\* The probe loop from candidate i on: the first candidate whose stat
\* succeeds is loaded and the result returned; 0 candidates found falls
\* through to the listing.
RECURSIVE ProbeIndexes(_, _, _)
ProbeIndexes(c, path, i) ==
    IF i > Len(validIndexes) THEN c
    ELSE LET loadIndex == path \o validIndexes[i]
             sidx == Stat(loadIndex)
             c1 == [c EXCEPT !.nStat = @ + 1]
         IN IF sidx.ok
            THEN ResourceHost_loadFile([c1 EXCEPT !.idx = i], loadIndex, sidx)
            ELSE ProbeIndexes(c1, path, i + 1)

\* "Make the path end with a / (for consistency) if it doesnt already"
WithSlash(path) == IF path[Len(path)] # "/" THEN path \o <<"/">> ELSE path

\* The listing arm of loadDirectory: no index file was found.
LoadListing(p, path, sb) ==
    IF OwnerDenied(sb) THEN [p EXCEPT !.res = NULL]
    ELSE
      LET run == ListDirectoryRun(path)
          listing == run.str
          slen == Len(listing)
          res == Len(p.heap) + 1
      IN [p EXCEPT !.nOpendir = @ + 1,
                   !.nOpened = @ + run.nOpened,
                   !.nClosedir = @ + run.nClosedir,
                   !.listed = TRUE,
                   !.heap = Append(@, NewResource(path, TRUE, listing, slen)),
                   !.cacheMap = MapInsert(@, path, res),
                   !.nInsert = @ + 1,
                   !.res = res]

\* Variant: the directory's owner test made before the index probe.
ResourceHost_loadDirectory_PermFirst(c, path0, sb) ==
    LET path == WithSlash(path0)
        c0 == [c EXCEPT !.dirMode = sb.st_mode]
        p == ProbeIndexes(c0, path, 1)
    IN IF OwnerDenied(sb) THEN [c0 EXCEPT !.res = NULL]
       ELSE IF p.idx # 0 THEN p
       ELSE LoadListing(p, path, sb)

\* loadDirectory: normalise the path, probe the index candidates, else list.
ResourceHost_loadDirectory(c, path0, sb) ==
    LET path == WithSlash(path0)
        c0 == [c EXCEPT !.dirMode = sb.st_mode]
        p == ProbeIndexes(c0, path, 1)
    IN IF p.idx # 0 THEN p
       ELSE LoadListing(p, path, sb)

\* Variant: the length test off by one.
UriRejected_Ge(uri) == Len(uri) >= MaxUriLen \/ uri = <<>>

\* uri.length() > 255 || uri.empty()
UriRejected(uri) == Len(uri) > MaxUriLen \/ uri = <<>>

\* getResource after a lookup that missed: stat, then the arm the type bits
\* select.  The tests are bit tests: S_IFBLK and S_IFSOCK hold the S_IFDIR bit.
LoadFromDisk(c0, path) ==
    LET sb == Stat(path)
        c1 == [c0 EXCEPT !.nStat = @ + 1]
    IN IF ~sb.ok THEN [c1 EXCEPT !.res = NULL]
       ELSE IF BitAnd(sb.st_mode, S_IFDIR) # 0
            THEN ResourceHost_loadDirectory([c1 EXCEPT !.branch = "dir"], path, sb)
       ELSE IF BitAnd(sb.st_mode, S_IFREG) # 0
            THEN ResourceHost_loadFile([c1 EXCEPT !.branch = "file"], path, sb)
       ELSE [c1 EXCEPT !.branch = "other", !.res = NULL]

\* Variant: a cached entry served only while its path still exists on disk.
ResourceHost_getResource_Revalidate(c, uri) ==
    IF UriRejected(uri) THEN [c EXCEPT !.res = NULL]
    ELSE
      LET path == baseDiskPath \o uri
          c0 == [c EXCEPT !.nLookup = @ + 1]
      IN IF MapHas(c0.cacheMap, path) /\ Stat(path).ok
         THEN [c0 EXCEPT !.hit = TRUE, !.res = c0.cacheMap[path],
                         !.nStat = @ + 1]
         ELSE LoadFromDisk(c0, path)

\* getResource: uri check, cache lookup and, on a miss, the load from disk.
ResourceHost_getResource(c, uri) ==
    IF UriRejected(uri) THEN [c EXCEPT !.res = NULL]
    ELSE
      LET path == baseDiskPath \o uri
          c0 == [c EXCEPT !.nLookup = @ + 1]
      IN IF MapHas(c0.cacheMap, path)
         THEN [c0 EXCEPT !.hit = TRUE, !.res = c0.cacheMap[path]]
         ELSE LoadFromDisk(c0, path)

\* Variant: the Resources deleted but the map not emptied.
ResourceHost_clearCache_NoClear(c) ==
    [c EXCEPT !.heap = [i \in DOMAIN c.heap |->
                           IF i \in Range(c.cacheMap)
                           THEN [c.heap[i] EXCEPT !.live = FALSE]
                           ELSE c.heap[i]]]

\* clearCache: delete every it->second, then cacheMap->clear()
ResourceHost_clearCache(c) ==
    [c EXCEPT !.heap = [i \in DOMAIN c.heap |->
                           IF i \in Range(c.cacheMap)
                           THEN [c.heap[i] EXCEPT !.live = FALSE]
                           ELSE c.heap[i]],
              !.cacheMap = EmptyMap]

(* ------------------------------ actions -------------------------------- *)

\* The URIs a client sends.
Uris ==
    { <<>>,
      <<"/", "n">>,
      <<"/", "n", "/">>,
      <<"/", "n", "/">> \o IndexHtml,
      Pad(MaxUriLen),
      Pad(MaxUriLen + 1) }

\* The callers of the concurrent specification.
Threads == {1, 2}

\* What `last` keeps of a call.
Record(op, uri, c, keys) ==
    [op |-> op, uri |-> uri, res |-> c.res, hit |-> c.hit,
     nLookup |-> c.nLookup, nStat |-> c.nStat, nOpen |-> c.nOpen,
     nRead |-> c.nRead, nOpendir |-> c.nOpendir, nInsert |-> c.nInsert,
     nOpened |-> c.nOpened, nClosedir |-> c.nClosedir,
     branch |-> c.branch, fileMode |-> c.fileMode, dirMode |-> c.dirMode,
     idx |-> c.idx, listed |-> c.listed,
     keys |-> keys]      \* clearCache: the keys the cache held

Init ==
    /\ fs \in FsConfigs
    /\ cacheMap = EmptyMap
    /\ heap = <<>>
    /\ created = {}
    /\ last = Record("init", <<>>, NewCall(EmptyMap, <<>>), {})
    /\ dirty = FALSE
    /\ fsOps = 0
    /\ dirHandles = 0
    /\ thr = [t \in Threads |-> IdleThread]
    /\ insLog = <<>>

\* A client calls getResource(uri).
GetResource(uri) ==
    \E c \in {ResourceHost_getResource(NewCall(cacheMap, heap), uri)} :
    /\ Len(c.heap) <= MaxRes
    /\ cacheMap' = c.cacheMap
    /\ heap' = c.heap
    /\ created' = created \cup (DOMAIN c.heap \ DOMAIN heap)
    /\ last' = Record("resolve", uri, c, {})
    /\ dirty' = FALSE
    /\ dirHandles' = dirHandles + c.nOpened - c.nClosedir
    /\ UNCHANGED <<fs, fsOps, thr, insLog>>

\* The host clears its cache.
ClearCache ==
    \E c \in {ResourceHost_clearCache(NewCall(cacheMap, heap))} :
    /\ cacheMap' = c.cacheMap
    /\ heap' = c.heap
    /\ created' = {}
    /\ last' = Record("clear", <<>>, c, DOMAIN cacheMap)
    /\ dirty' = FALSE
    /\ UNCHANGED <<fs, fsOps, dirHandles, thr, insLog>>

\* The environment creates, replaces, rewrites, chmods or removes a name;
\* replacing the directory by something else removes its entries.
FsWrite(p, n) ==
    LET f1 == [fs EXCEPT ![p] = n]
        f2 == IF p = P_n /\ ~IsDirNode(n)
              THEN [q \in PathNames |-> IF q = P_n THEN n ELSE NoNode]
              ELSE f1
    IN /\ fsOps < MaxFsOps
       /\ n # fs[p]
       /\ FsOk(f2)
       /\ fs' = f2
       /\ fsOps' = fsOps + 1
       /\ dirty' = TRUE
       /\ UNCHANGED <<cacheMap, heap, created, last, dirHandles, thr, insLog>>

Next ==
    \/ \E uri \in Uris : GetResource(uri)
    \/ ClearCache
    \/ \E p \in PathNames : \E n \in NodeChoices(p) : FsWrite(p, n)

Spec == Init /\ [][Next]_vars

(* ------------------------- concurrent callers -------------------------- *)

\* The URIs the concurrent callers send.
ConcUris ==
    { <<"/", "n">>,
      <<"/", "n", "/">>,
      <<"/", "n", "/">> \o IndexHtml }

\* Variant: the Resource inserted right after new, before it gets its MIME
\* type and its buffer.
NextPc_InsertFirst(pc, isDir) ==
    CASE pc = "new" -> "insert"
      [] pc = "insert" -> IF isDir THEN "setData" ELSE "mime"
      [] pc = "mime" -> "setData"
      [] pc = "setData" -> "done"

\* The order of the statements that build and publish a Resource:
\* loadFile: new, guessMimeType, setData, insert;
\* loadDirectory: new, setData, insert.
NextPc(pc, isDir) ==
    CASE pc = "new" -> IF isDir THEN "setData" ELSE "mime"
      [] pc = "mime" -> "setData"
      [] pc = "setData" -> "insert"
      [] pc = "insert" -> "done"

\* Caller t enters getResource(uri): the uri test, the lookup and, on a
\* miss, stat and everything loadFile or loadDirectory reads from the
\* filesystem, up to the point where the Resource is to be created.
T_Begin(t, uri) ==
    \E c \in {ResourceHost_getResource(NewCall(cacheMap, heap), uri)} :
    /\ thr[t].pc = "idle"
    /\ thr' = [thr EXCEPT ![t] =
                 IF c.nInsert = 0
                 THEN [IdleThread EXCEPT !.pc = "done", !.uri = uri,
                                         !.res = c.res, !.hit = c.hit]
                 ELSE [IdleThread EXCEPT !.pc = "new", !.uri = uri,
                                         !.plan = c.heap[Len(c.heap)],
                                         !.seen = Len(insLog)]]
    /\ dirHandles' = dirHandles + c.nOpened - c.nClosedir
    /\ UNCHANGED <<fs, cacheMap, heap, created, last, dirty, fsOps, insLog>>

\* res = new Resource(path) / new Resource(path, true)
T_New(t) ==
    /\ thr[t].pc = "new"
    /\ Len(heap) < MaxRes
    /\ heap' = Append(heap, Resource_new(thr[t].plan.location, thr[t].plan.dir))
    /\ thr' = [thr EXCEPT ![t].pc = NextPc("new", thr[t].plan.dir),
                          ![t].res = Len(heap) + 1]
    /\ UNCHANGED <<fs, cacheMap, created, last, dirty, fsOps, dirHandles,
                   insLog>>

\* res->guessMimeType()
T_GuessMimeType(t) ==
    /\ thr[t].pc = "mime"
    /\ heap' = [heap EXCEPT ![thr[t].res] = Resource_guessMimeType(@)]
    /\ thr' = [thr EXCEPT ![t].pc = NextPc("mime", thr[t].plan.dir)]
    /\ UNCHANGED <<fs, cacheMap, created, last, dirty, fsOps, dirHandles,
                   insLog>>

\* res->setData(data, len)
T_SetData(t) ==
    /\ thr[t].pc = "setData"
    /\ heap' = [heap EXCEPT ![thr[t].res] =
                  Resource_setData(@, thr[t].plan.data, thr[t].plan.len)]
    /\ thr' = [thr EXCEPT ![t].pc = NextPc("setData", thr[t].plan.dir)]
    /\ UNCHANGED <<fs, cacheMap, created, last, dirty, fsOps, dirHandles,
                   insLog>>

\* Another caller inserted the key of caller t after t's lookup.
Overtaken(t) ==
    \E i \in DOMAIN insLog :
        i > thr[t].seen /\ insLog[i].key = thr[t].plan.location

\* cacheMap->insert(std::pair(res->getLocation(), res))
T_Insert(t) ==
    /\ thr[t].pc = "insert"
    /\ cacheMap' = MapInsert(cacheMap, thr[t].plan.location, thr[t].res)
    /\ insLog' = Append(insLog, [key |-> thr[t].plan.location,
                                 id |-> thr[t].res, seen |-> thr[t].seen,
                                 racy |-> FALSE])
    /\ thr' = [thr EXCEPT ![t].pc = NextPc("insert", thr[t].plan.dir)]
    /\ UNCHANGED <<fs, heap, created, last, dirty, fsOps, dirHandles>>

\* The same insert made while the other caller's insert of the key is
\* still running: the two writes to the map are not ordered, and the
\* element of the later one may end up in front of the earlier one's.
T_InsertRace(t) ==
    /\ thr[t].pc = "insert"
    /\ Overtaken(t)
    /\ cacheMap' = [cacheMap EXCEPT ![thr[t].plan.location] = thr[t].res]
    /\ insLog' = Append(insLog, [key |-> thr[t].plan.location,
                                 id |-> thr[t].res, seen |-> thr[t].seen,
                                 racy |-> TRUE])
    /\ thr' = [thr EXCEPT ![t].pc = NextPc("insert", thr[t].plan.dir)]
    /\ UNCHANGED <<fs, heap, created, last, dirty, fsOps, dirHandles>>

\* getResource returns to the caller, who may call again.
T_Return(t) ==
    /\ thr[t].pc = "done"
    /\ thr' = [thr EXCEPT ![t] = IdleThread]
    /\ UNCHANGED <<fs, cacheMap, heap, created, last, dirty, fsOps,
                   dirHandles, insLog>>

NextConc ==
    \E t \in Threads :
        \/ \E uri \in ConcUris : T_Begin(t, uri)
        \/ T_New(t)
        \/ T_GuessMimeType(t)
        \/ T_SetData(t)
        \/ T_Insert(t)
        \/ T_InsertRace(t)
        \/ T_Return(t)

SpecConc == Init /\ [][NextConc]_vars

(* ------------------------------ claims --------------------------------- *)

\* The cache key getResource looks up for a URI.
Key(uri) == baseDiskPath \o uri

\* The step is one call of getResource (clearCache sets another op, a
\* filesystem modification sets dirty).
IsGetResource == last'.op = "resolve" /\ ~dirty'

\* No filesystem access was made by the last call.
NoFsAccess(r) == r.nStat = 0 /\ r.nOpen = 0 /\ r.nRead = 0 /\ r.nOpendir = 0

\* C1: a getResource(uri) that returned a Resource, followed immediately by
\* getResource(uri) again (no clear, no filesystem change in between), returns
\* a Resource with the same location and buffer, as a cache hit without any
\* filesystem access.
C1_Idempotent ==
    [][ ( /\ last.op = "resolve" /\ last.res # NULL /\ ~dirty
          /\ IsGetResource /\ last'.uri = last.uri )
        => /\ last'.res # NULL
           /\ heap'[last'.res].location = heap[last.res].location
           /\ heap'[last'.res].data = heap[last.res].data
           /\ last'.hit
           /\ NoFsAccess(last') ]_vars

\* C2: after a getResource(uri) that missed the cache and returned a Resource,
\* the cache maps base path + uri to that Resource.
C2_KeyOfLoad ==
    (last.op = "resolve" /\ ~last.hit /\ last.res # NULL)
    => /\ MapHas(cacheMap, Key(last.uri))
       /\ cacheMap[Key(last.uri)] = last.res

\* C3: between two clears at most one Resource is created per location, a
\* Resource is created only by a call that missed the cache, and a Resource
\* stops being live only in clearCache.
C3_Lifecycle ==
    [][ /\ \A i, j \in created' :
             heap'[i].location = heap'[j].location => i = j
        /\ (Len(heap') > Len(heap) => IsGetResource /\ ~last'.hit)
        /\ \A i \in DOMAIN heap :
             (heap[i].live /\ ~heap'[i].live) => last'.op = "clear" ]_vars

\* C4: a getResource whose stat finds something that is neither a regular
\* file nor a directory returns NULL and inserts nothing; the directory arm
\* runs only for directories and the file arm only for regular files.
C4_UnsupportedIsMiss ==
    (last.op = "resolve" /\ ~dirty /\ last.nStat >= 1)
    => LET n == Resolve(Key(last.uri)) IN
       /\ (n.present /\ ~IsDirNode(n) /\ ~IsRegNode(n))
            => (last.res = NULL /\ last.nInsert = 0)
       /\ last.branch = "dir" => IsDirNode(n)
       /\ last.branch = "file" => IsRegNode(n)

\* The owner permission bits of a recorded st_mode.
OwnerBits(mode) == BitAnd(mode, S_IRWXU)

\* C5 as stated: loadFile, and loadDirectory without an index file, return
\* NULL and cache nothing whenever the owner bits are not all three set.
C5_AllBitsRequired ==
    last.op = "resolve"
    => /\ (last.fileMode # -1 /\ OwnerBits(last.fileMode) # S_IRWXU)
            => (last.res = NULL /\ last.nInsert = 0)
       /\ (last.dirMode # -1 /\ last.idx = 0 /\ OwnerBits(last.dirMode) # S_IRWXU)
            => (last.res = NULL /\ last.nInsert = 0)

\* C5, amended: loadFile, and loadDirectory without an index file, return
\* NULL and cache nothing when none of the three owner bits is set; with at
\* least one of them set the gate is passed (the file is opened, the listing
\* is generated).
C5_OwnerGate ==
    last.op = "resolve"
    => /\ (last.fileMode # -1 /\ OwnerBits(last.fileMode) = 0)
            => (last.res = NULL /\ last.nOpen = 0 /\ last.nInsert = 0)
       /\ (last.fileMode # -1 /\ OwnerBits(last.fileMode) # 0)
            => last.nOpen = 1
       /\ (last.dirMode # -1 /\ last.idx = 0 /\ OwnerBits(last.dirMode) = 0)
            => (last.res = NULL /\ ~last.listed /\ last.nInsert = 0)
       /\ (last.dirMode # -1 /\ last.idx = 0 /\ OwnerBits(last.dirMode) # 0)
            => last.listed

\* A file with owner read+write but not execute went through loadFile and
\* was served.
C5_Witness ==
    /\ last.op = "resolve"
    /\ last.branch = "file"
    /\ OwnerBits(last.fileMode) = S_IRUSR + S_IWUSR
    /\ last.res # NULL

\* C6: when loadDirectory reaches the listing and the directory cannot be
\* opened for enumeration, getResource returns NULL and nothing is inserted.
C6_EnumerationFailureIsMiss ==
    ( /\ last.op = "resolve" /\ ~dirty
      /\ last.listed
      /\ ~OpenDir(WithSlash(Key(last.uri))) )
    => (last.res = NULL /\ last.nInsert = 0)

\* The candidates of validIndexes whose stat succeeds inside directory path.
IndexesFound(path) ==
    {i \in 1..Len(validIndexes) : Stat(path \o validIndexes[i]).ok}

FirstIndex(path) ==
    CHOOSE i \in IndexesFound(path) : \A j \in IndexesFound(path) : i <= j

\* The last call was for a directory in which an index candidate exists.
OnIndexedDirectory ==
    /\ last.op = "resolve" /\ ~dirty
    /\ ~UriRejected(last.uri)
    /\ IsDirNode(Resolve(Key(last.uri)))
    /\ IndexesFound(WithSlash(Key(last.uri))) # {}

\* The last call returned the content of the first index candidate.
IndexServed ==
    LET path == WithSlash(Key(last.uri))
        loadIndex == path \o validIndexes[FirstIndex(path)]
    IN /\ last.res # NULL
       /\ ~heap[last.res].dir
       /\ heap[last.res].location = loadIndex
       /\ heap[last.res].data = Resolve(loadIndex).data
       /\ ~last.listed

\* C7 as stated: for every directory holding an index candidate, getResource
\* returns the content of the first candidate, never a listing.
C7_IndexAlways == OnIndexedDirectory => IndexServed

\* C7, amended: a getResource that misses the cache on a directory in which
\* the stat of some index candidate succeeds hands the first such candidate
\* to loadFile and returns what loadFile returns, whatever the directory's
\* own owner bits: the candidate's content when the candidate has an owner
\* bit set and can be opened, NULL otherwise; later candidates are not
\* probed and no listing is generated.
C7_IndexPrecedence ==
    (OnIndexedDirectory /\ ~last.hit)
    => LET path == WithSlash(Key(last.uri))
           i == FirstIndex(path)
           n == Resolve(path \o validIndexes[i])
       IN /\ last.idx = i
          /\ last.nStat = 1 + i
          /\ last.fileMode = n.mode
          /\ ~last.listed /\ last.nOpendir = 0
          /\ IF OwnerBits(n.mode) # 0 /\ n.canOpen
             THEN IndexServed
             ELSE last.res = NULL /\ last.nInsert = 0

\* A directory without any owner bit, whose second candidate is the first
\* one present, was served through that candidate.
C7_Witness ==
    /\ OnIndexedDirectory /\ ~last.hit
    /\ OwnerBits(last.dirMode) = 0
    /\ last.idx = 2
    /\ IndexServed

\* C8: clearCache empties the mapping and destroys every Resource it held;
\* the next getResource of a URI whose key was cached before the clear
\* misses, stats again, and a Resource it returns is a new one holding what
\* the filesystem holds now.
C8_ClearThenResolve ==
    [][ /\ (last'.op = "clear" /\ ~dirty')
           => /\ cacheMap' = EmptyMap
              /\ last'.keys = DOMAIN cacheMap
              /\ \A k \in DOMAIN cacheMap : ~heap'[cacheMap[k]].live
        /\ ( /\ last.op = "clear" /\ last'.op = "resolve"
             /\ Key(last'.uri) \in last.keys )
           => /\ ~last'.hit
              /\ last'.nStat >= 1
              /\ last'.res # NULL
                 => LET r == heap'[last'.res] IN
                    /\ last'.res \notin DOMAIN heap
                    /\ r.live
                    /\ r.len = Len(r.data)
                    /\ r.data = IF r.dir
                                THEN ResourceHost_listDirectory(r.location)
                                ELSE FileRead(r.location, r.len) ]_vars

\* After a clear, one Resource was created, for a location whose earlier
\* Resource is destroyed and held other content.
C8_Witness ==
    /\ last.op = "resolve" /\ last.res # NULL
    /\ created = {last.res}
    /\ \E i \in DOMAIN heap :
         /\ ~heap[i].live
         /\ heap[i].location = heap[last.res].location
         /\ heap[i].data # heap[last.res].data

\* C9: getResource of an empty URI or one longer than 255 characters returns
\* NULL before any lookup or filesystem access and leaves cache and heap as
\* they were; a URI of exactly 255 characters reaches the cache lookup.
C9_InvalidUriRejected ==
    [][ IsGetResource
        => /\ (last'.uri = <<>> \/ Len(last'.uri) > MaxUriLen)
                => /\ last'.res = NULL
                   /\ last'.nLookup = 0
                   /\ NoFsAccess(last')
                   /\ last'.nInsert = 0
                   /\ cacheMap' = cacheMap /\ heap' = heap
           /\ Len(last'.uri) = MaxUriLen => last'.nLookup = 1 ]_vars

\* A URI of 256 characters was rejected.
C9_Witness ==
    /\ last.op = "resolve"
    /\ Len(last.uri) = MaxUriLen + 1
    /\ last.res = NULL

\* C10: a getResource that hits changes neither the cache nor the heap and
\* makes no filesystem access; one that misses reads file content at most
\* once and inserts into the cache at most once.
C10_SideEffectBound ==
    [][ IsGetResource
        => /\ last'.hit
                => /\ cacheMap' = cacheMap /\ heap' = heap
                   /\ NoFsAccess(last') /\ last'.nInsert = 0
           /\ ~last'.hit
                => /\ last'.nRead <= 1 /\ last'.nOpen <= 1
                   /\ last'.nInsert <= 1
                   /\ Len(heap') <= Len(heap) + 1
                   /\ Cardinality(DOMAIN cacheMap') <= Cardinality(DOMAIN cacheMap) + 1
                   /\ \A i \in DOMAIN heap : heap'[i] = heap[i] ]_vars

\* A miss on a directory holding both index candidates loaded the first one:
\* one read, one insertion.
C10_Witness ==
    /\ last.op = "resolve" /\ ~dirty /\ ~last.hit
    /\ IndexesFound(WithSlash(Key(last.uri))) = {1, 2}
    /\ last.nRead = 1 /\ last.nInsert = 1

\* The inserts of key k, as positions of insLog.
InsertsOf(k) == { i \in DOMAIN insLog : insLog[i].key = k }

\* Positions i < j of insLog are the two inserts of one key, made by two
\* calls that both looked the key up before either inserted.
RacingPair(i, j) ==
    /\ i < j
    /\ InsertsOf(insLog[i].key) = {i, j}
    /\ insLog[j].seen < i

IsClearCache == last'.op = "clear" /\ ~dirty'

\* C12: as long as clearCache is not called, a cached key keeps its Resource
\* and the Resource keeps its buffer, length, location and flags, whatever
\* happens to the file or directory on disk; a getResource that looks the key
\* up returns that same Resource and does not consult the filesystem.
C12_CachedImmutable ==
    [][ ~IsClearCache
        => \A k \in DOMAIN cacheMap :
              /\ MapHas(cacheMap', k)
              /\ cacheMap'[k] = cacheMap[k]
              /\ heap'[cacheMap[k]] = heap[cacheMap[k]]
              /\ (IsGetResource /\ ~UriRejected(last'.uri)
                    /\ Key(last'.uri) = k)
                 => /\ last'.hit
                    /\ last'.res = cacheMap[k]
                    /\ NoFsAccess(last') ]_vars

\* A hit on a file that has been removed from disk since it was cached, or
\* whose content on disk is no longer what the Resource holds.
C12_Witness ==
    /\ last.op = "resolve" /\ ~dirty /\ last.hit /\ fsOps > 0
    /\ ~heap[last.res].dir
    /\ heap[last.res].location = Key(last.uri)
    /\ \/ ~Resolve(Key(last.uri)).present
       \/ /\ IsRegNode(Resolve(Key(last.uri)))
          /\ Resolve(Key(last.uri)).data # heap[last.res].data
          /\ Resolve(Key(last.uri)) # HugeFile

\* C13: a getResource that misses the cache on a regular file that passes
\* the owner test and can be opened returns a Resource with the directory
\* flag false, the path as location, a length equal to st_size of the stat
\* snapshot and a buffer equal to the file's content, byte for byte.
C13_RoundTrip ==
    LET n == Resolve(Key(last.uri)) IN
    ( /\ last.op = "resolve" /\ ~dirty /\ ~last.hit
      /\ ~UriRejected(last.uri)
      /\ IsRegNode(n) /\ OwnerBits(n.mode) # 0 /\ n.canOpen )
    => /\ last.res # NULL
       /\ ~heap[last.res].dir
       /\ heap[last.res].location = Key(last.uri)
       /\ OffT(0, heap[last.res].len) = n.size
       /\ Len(heap[last.res].data) = heap[last.res].len
       /\ heap[last.res].data = n.data

\* The number of positions of s at which pat occurs.
CountSub(s, pat) ==
    Cardinality({ i \in 1..(Len(s) - Len(pat) + 1) :
                    SubSeq(s, i, i + Len(pat) - 1) = pat })

\* The number of hyperlinks of a page whose text is name.
LinksTo(page, name) == CountSub(page, HtmlAMid \o name \o HtmlAClose)

\* The last call missed the cache on a directory with no index candidate
\* whose owner bits are all set.
OnPlainDirectory ==
    /\ last.op = "resolve" /\ ~dirty /\ ~last.hit
    /\ ~UriRejected(last.uri)
    /\ IsDirNode(Resolve(Key(last.uri)))
    /\ IndexesFound(WithSlash(Key(last.uri))) = {}
    /\ OwnerBits(Resolve(Key(last.uri)).mode) = S_IRWXU

\* C14: for a directory with no index file and the owner bits set,
\* getResource returns a Resource with the directory flag true whose body
\* holds exactly one hyperlink for each entry whose name does not start with
\* a period, and none for an entry whose name does.
C14_ListingLinks ==
    OnPlainDirectory
    => /\ last.res # NULL
       /\ heap[last.res].dir
       /\ \A i \in DOMAIN ReadDir(WithSlash(Key(last.uri))) :
             LET d_name == ReadDir(WithSlash(Key(last.uri)))[i]
             IN LinksTo(heap[last.res].data, d_name)
                    = IF d_name[1] = "." THEN 0 ELSE 1

\* The directory path with the base path removed from its beginning, "?"
\* when it does not begin with the base path.
LogicalUri(path) ==
    IF Len(path) >= Len(baseDiskPath)
       /\ SubSeq(path, 1, Len(baseDiskPath)) = baseDiskPath
    THEN SubSeq(path, Len(baseDiskPath) + 1, Len(path))
    ELSE <<"?">>

\* C15: the title and heading of a listing show the directory path with the
\* base path removed (the uri with its trailing separator), and the target
\* of each hyperlink is that uri followed by the entry name.
C15_LogicalUri ==
    LET path == WithSlash(Key(last.uri))
        uri  == LogicalUri(path)
    IN ( /\ last.op = "resolve" /\ ~dirty /\ ~last.hit
         /\ last.listed /\ last.nOpened = 1 )
       => /\ CountSub(heap[last.res].data,
                      HtmlTitleOpen \o uri \o HtmlTitleClose) = 1
          /\ CountSub(heap[last.res].data,
                      HtmlH1Open \o uri \o HtmlH1Close) = 1
          /\ \A i \in DOMAIN ReadDir(path) :
                LET d_name == ReadDir(path)[i]
                IN d_name[1] # "."
                   => CountSub(heap[last.res].data,
                               HtmlAOpen \o uri \o d_name \o HtmlAMid) = 1

\* The last call ran listDirectory on a directory in which every entry is
\* hidden, and opendir opened it.
ListedAllHidden ==
    /\ last.op = "resolve" /\ ~dirty /\ ~last.hit
    /\ last.listed /\ last.nOpened = 1
    /\ \A i \in DOMAIN ReadDir(WithSlash(Key(last.uri))) :
           ReadDir(WithSlash(Key(last.uri)))[i][1] = "."

\* The last call ran listDirectory on a directory opendir could not open.
ListedUnopened ==
    /\ last.op = "resolve" /\ ~dirty /\ ~last.hit
    /\ last.listed /\ last.nOpened = 0

\* C16 as stated: listDirectory returns the empty string when the directory
\* cannot be opened, and also when it opens but every entry is hidden.
C16_EmptyInBothCases ==
    (ListedUnopened \/ ListedAllHidden) => heap[last.res].data = <<>>

\* C16, amended: listDirectory returns the empty string when the directory
\* cannot be opened; when it opens but every entry is hidden it returns the
\* page with title, heading and closing tags and no hyperlink, which is not
\* the empty string.
C16_EmptyOnlyWhenUnopened ==
    /\ ListedUnopened => heap[last.res].data = <<>>
    /\ ListedAllHidden
       => /\ heap[last.res].data # <<>>
          /\ CountSub(heap[last.res].data, HtmlTitleOpen) = 1
          /\ CountSub(heap[last.res].data, HtmlH1Open) = 1
          /\ CountSub(heap[last.res].data, HtmlClose) = 1
          /\ CountSub(heap[last.res].data, HtmlAOpen) = 0

\* The last call listed an opened directory that holds entries, all of
\* them hidden.
C16_Witness ==
    /\ ListedAllHidden
    /\ Len(ReadDir(WithSlash(Key(last.uri)))) >= 3
    /\ heap[last.res].dir

\* C17: every directory handle listDirectory obtains is released before it
\* returns, on every path: after any sequence of calls no directory handle
\* is open, and a failed opendir leaves no handle to release.
C17_HandlesReleased ==
    /\ dirHandles = 0
    /\ last.nOpened = last.nClosedir
    /\ last.nOpened <= last.nOpendir

\* A second listing has just been made, of a directory opendir opened.
C17_Witness ==
    /\ last.op = "resolve" /\ ~dirty
    /\ last.listed /\ last.nOpened = 1 /\ last.nClosedir = 1
    /\ \E i \in DOMAIN heap : i # last.res /\ heap[i].dir

\* C18: in single-threaded use every Resource created and not yet destroyed
\* is stored under some key of the cache, so that after a clearCache no
\* Resource is live.
C18_Ownership ==
    /\ \A i \in DOMAIN heap : heap[i].live => i \in Range(cacheMap)
    /\ (last.op = "clear") => \A i \in DOMAIN heap : ~heap[i].live

\* C19: a getResource that returns NULL (invalid uri, stat failure, node
\* that is neither file nor directory, owner test failure, open failure)
\* leaves the cache and the set of live Resources as they were.
C19_MissChangesNothing ==
    [][ (IsGetResource /\ last'.res = NULL)
        => /\ cacheMap' = cacheMap
           /\ heap' = heap
           /\ created' = created
           /\ last'.nInsert = 0 ]_vars

\* The last call got past stat and the owner test, failed to open the file
\* and returned NULL, with something in the cache.
C19_Witness ==
    /\ last.op = "resolve" /\ ~dirty
    /\ last.res = NULL
    /\ last.nOpen = 1 /\ last.nRead = 0
    /\ cacheMap # EmptyMap

\* C20: a Resource is inserted into the cache only after its buffer and
\* length are attached and, for a file, its MIME type is assigned: in every
\* state, also in the middle of another caller's getResource, every Resource
\* reachable through the cache has its data set, and so has the Resource a
\* caller got from a hit.
C20_PublishAfterInit ==
    /\ \A k \in DOMAIN cacheMap :
          /\ heap[cacheMap[k]].hasData
          /\ ~heap[cacheMap[k]].dir => heap[cacheMap[k]].mime
    /\ \A t \in Threads :
          (thr[t].pc = "done" /\ thr[t].hit) => heap[thr[t].res].hasData

\* One caller has just hit the cache while the other is between new
\* Resource and setData.
C20_Witness ==
    \E t, u \in Threads :
        /\ thr[t].pc = "done" /\ thr[t].hit
        /\ thr[u].pc \in {"mime", "setData"}
        /\ ~heap[thr[u].res].hasData
====
